---- MODULE Spec2Model ----
(***************************************************************************)
(* Document ingestion / query / deletion backend (backend/main.py).        *)
(*                                                                         *)
(* The process holds two singletons created by load_index at startup: the  *)
(* vector index handle `index` and the relational client `supabase_client`.*)
(* The external stores are the ledger table llama_index_documents, the     *)
(* `documents` table and the vectors held by the Pinecone index.           *)
(*                                                                         *)
(* A request handler is modelled stage by stage: `pc` is the position of   *)
(* the request in flight, `req` holds the handler's locals together with a *)
(* log of the collaborator calls it made and, once it has returned, its    *)
(* HTTP status.  Outcomes of collaborator calls (storage download, text    *)
(* extraction, chunking, embedding, upsert, ledger I/O, vector purge) are  *)
(* drawn with \E at the stage that performs the call.                      *)
(***************************************************************************)
EXTENDS Integers, Sequences, FiniteSets, TLC

\* ------------------------------------------------------------------ bounds
MaxChunks == 2      \* most chunks the chunker returns for one document
MaxRequests == 2    \* requests served in one behaviour
MaxPages == 4       \* most pages of a PDF handed to the extractor

\* ------------------------------------------------------- program constants
max_size_bytes == 30 * 1024 * 1024
EMBEDDING_DIMENSIONS == 3072

\* ------------------------------------------------------------ value spaces
None == "None"
NoFid == "no_file_id"            \* metadata without a supabase_file_id key
FileIds == {"f1", "f2"}
Tags == FileIds \cup {NoFid}
Sizes == {max_size_bytes, max_size_bytes + 1}
FileTypes == {"text/plain", "application/pdf", "image/png"}
ContentKinds == {"utf8", "pdf", "binary"}
EmbeddingLengths == {EMBEDDING_DIMENSIONS, 1536}
PersistedFiles == {"f1"}         \* files ingested by an earlier run

\* An exception text is modelled by the set of marker words it contains.
StorageErrors == {{}, {"not found"}, {"denied"}, {"not found", "denied"}}
UpsertErrors == {{}, {"dimension"}, {"rate limit"}, {"dimension", "rate limit"}}

VARIABLES
    index,            \* TRUE iff the global `index` is not None
    supabase_client,  \* TRUE iff the global `supabase_client` is not None
    pinecone_creds,   \* TRUE iff PINECONE_API_KEY and PINECONE_ENVIRONMENT are set
    ledger,           \* llama_index_documents: file id -> chunk_count of each row
    vectors,          \* Pinecone: metadata tag -> number of vectors carrying it
    documents,        \* number of rows of the documents table
    pc,               \* position of the request in flight ("idle": none)
    req,              \* locals and call log of the current / last request
    served,           \* number of requests started
    pdf               \* PDF extraction in progress (pdf_processor.py)

vars == <<index, supabase_client, pinecone_creds, ledger, vectors, documents,
          pc, req, served, pdf>>

\* ----------------------------------------------------------------- helpers
RECURSIVE SumOver(_, _)
SumOver(f, S) ==
    IF S = {} THEN 0
    ELSE LET x == CHOOSE y \in S : TRUE IN f[x] + SumOver(f, S \ {x})

VectorCount == SumOver(vectors, Tags)

NewRequest(op) ==
    [op |-> op, file_id |-> None, has_path |-> FALSE, user_id |-> FALSE,
     size |-> 0, type |-> None, parsed |-> FALSE, authenticated |-> FALSE,
     attempt |-> 0, tried |-> <<>>, orig_error |-> {}, errors |-> {},
     downloaded |-> FALSE,
     content |-> None, content_length |-> 0,
     extracted |-> FALSE, nodes |-> 0, node_tag |-> NoFid, chunked |-> FALSE,
     upsert_calls |-> 0, upserted |-> FALSE, ledger_writes |-> 0,
     lookups |-> 0, purge_calls |-> 0, engine_calls |-> 0, log_calls |-> 0,
     synth_calls |-> 0, failed |-> {}, lookup_ok |-> FALSE,
     follows_ingest |-> FALSE,
     follows_unrecorded |-> FALSE, tracked_before |-> FALSE,
     embedding_length |-> 0, upsert_error |-> {}, ledger_written |-> FALSE,
     found |-> FALSE, ledger_deleted |-> FALSE, purged |-> FALSE,
     status |-> 0, kind |-> "in_flight", chunks_processed |-> 0,
     pre_ledger |-> ledger, pre_vectors |-> vectors]

\* The handler returns (or raises HTTPException) with `status`.
Finish(r, status, kind) ==
    /\ req' = [r EXCEPT !.status = status, !.kind = kind]
    /\ pc' = "idle"

\* What is left of a request once its response has been sent: the handler's
\* locals are gone; a later delete can only tell, from the ledger and the
\* index, that an ingest of the file id went before it.
Responded(r) ==
    LET ingested == r.op = "process" /\ r.status = 200
        unrecorded == \/ ingested /\ r.upserted /\ ~r.ledger_written
                      \/ r.op = "delete" /\ r.follows_unrecorded
    IN  [NewRequest("none") EXCEPT
            !.status = 200, !.kind = "responded",
            !.file_id = IF ingested \/ unrecorded THEN r.file_id ELSE None,
            !.follows_ingest = ingested,
            !.follows_unrecorded = unrecorded,
            !.tracked_before =
                /\ unrecorded
                /\ \/ r.op = "process" /\ Len(r.pre_ledger[r.file_id]) > 0
                   \/ r.op = "delete" /\ r.tracked_before]

\* The response is sent and the request's scope is left.
respond ==
    /\ pc = "idle" /\ req.op # "none" /\ req.status # 0
    /\ req' = Responded(req)
    /\ UNCHANGED <<pdf, index, supabase_client, pinecone_creds, ledger, vectors,
                   documents, pc, served>>

\* No PDF extraction is in progress.
NoPdf == [stage |-> "none"]

\* ----------------------------------------------------------------- startup
\* load_index: either singleton may fail to initialise; the index is built
\* without reading PINECONE_ENVIRONMENT when the Pinecone index exists.
\* The ledger table and the Pinecone index are external and outlive the
\* process: they hold the files ingested by earlier runs (one chunk each).
load_index ==
    /\ index \in BOOLEAN
    /\ supabase_client \in BOOLEAN
    /\ pinecone_creds \in BOOLEAN
    /\ ledger = [f \in FileIds |-> IF f \in PersistedFiles THEN <<1>> ELSE <<>>]
    /\ vectors = [t \in Tags |-> IF t \in PersistedFiles THEN 1 ELSE 0]
    /\ documents = 0
    /\ pc = "idle"
    /\ req = [NewRequest("none") EXCEPT !.status = 200, !.kind = "startup"]
    /\ served = 0
    /\ pdf = NoPdf

Init == load_index

\* ------------------------------------------------------------ POST /process
oversized_300mb(file_size) == file_size > 300 * 1024 * 1024

oversized(file_size) == file_size > max_size_bytes

\* Request envelopes: no bearer token, an unparsable body, or parsed data.
ProcessRequests ==
    {[token |-> FALSE, body_ok |-> TRUE, file_id |-> None, has_path |-> FALSE,
      user_id |-> FALSE, size |-> 0, type |-> "text/plain"],
     [token |-> TRUE, body_ok |-> FALSE, file_id |-> None, has_path |-> FALSE,
      user_id |-> FALSE, size |-> 0, type |-> "text/plain"]}
    \cup [token : {TRUE}, body_ok : {TRUE}, file_id : FileIds \cup {None},
          has_path : BOOLEAN, user_id : BOOLEAN, size : Sizes, type : FileTypes]

\* Authentication, service checks, body parsing and validation.
process_file_validate(request) ==
    /\ pc = "idle" /\ req.op = "none"
    /\ served < MaxRequests
    /\ served' = served + 1
    /\ UNCHANGED <<pdf, index, supabase_client, pinecone_creds, ledger, vectors, documents>>
    /\ LET r0 == [NewRequest("process") EXCEPT !.authenticated = request.token]
           r1 == [r0 EXCEPT !.parsed = TRUE, !.file_id = request.file_id,
                            !.has_path = request.has_path,
                            !.user_id = request.user_id,
                            !.size = request.size, !.type = request.type]
       IN  IF ~request.token THEN Finish(r0, 401, "authentication_required")
           ELSE IF ~supabase_client THEN Finish(r0, 500, "supabase_not_initialized")
           ELSE IF ~index THEN Finish(r0, 500, "index_not_initialized")
           ELSE IF ~request.body_ok THEN Finish(r0, 400, "invalid_json")
           ELSE IF request.file_id = None \/ ~request.has_path
           THEN Finish(r1, 400, "missing_file_information")
           ELSE IF oversized(request.size) THEN Finish(r1, 413, "file_too_large")
           ELSE /\ req' = [r1 EXCEPT !.attempt = 1]
                /\ pc' = "download"

\* Candidate path and credential of the n-th download attempt.
DownloadPlan ==
    << <<"original", "regular">>, <<"original", "service_role">>,
       <<"user_id/file_id", "regular">>, <<"user_id/file_id", "service_role">>,
       <<"file_id", "regular">>, <<"file_id", "service_role">> >>

\* Classification of a download failure by the text of the exception.
download_error_status(message) ==
    IF "not found" \in message THEN 404
    ELSE IF message \cap {"permission", "access", "denied"} # {} THEN 403
    ELSE 500

download_error_kind(message) ==
    IF "not found" \in message THEN "file_not_found"
    ELSE IF message \cap {"permission", "access", "denied"} # {} THEN "permission_denied"
    ELSE "download_error"

\* Marker words of "Failed to download file with all path formats and auth
\* methods. See logs for details.": none.
all_attempts_failed_message == {}

\* Marker words of "Failed to download file from Supabase - empty response".
empty_response_message == {}

DownloadFailed(r, message) ==
    Finish(r, download_error_status(message), download_error_kind(message))

EmptyResponse(r) ==
    Finish(r, download_error_status(empty_response_message), "empty_response")

\* Outcomes of one download call: bytes of some content kind and length,
\* b"", or a failure (the regular client raises `message`; the service-role
\* helper returns None whatever the failure).  The stored object need not
\* have the size the request declared.
DownloadOutcomes ==
    [result : {"ok"}, message : {{}}, content : ContentKinds, length : Sizes]
    \cup [result : {"empty"}, message : {{}}, content : {None}, length : {0}]
    \cup [result : {"error"}, message : StorageErrors, content : {None}, length : {0}]

\* One download attempt of the fallback chain.
process_file_download(outcome) ==
    /\ pc = "download"
    /\ UNCHANGED <<pdf, index, supabase_client, pinecone_creds, ledger, vectors, documents, served>>
    /\ LET n == req.attempt
           regular == DownloadPlan[n][2] = "regular"
           r == [req EXCEPT !.tried = Append(@, DownloadPlan[n]), !.downloaded = TRUE]
       IN  IF outcome.result = "ok"
           \* orig_error is unbound once its except clause is left
           THEN /\ req' = [r EXCEPT !.content = outcome.content,
                                    !.content_length = outcome.length,
                                    !.orig_error = {}, !.errors = {}]
                /\ pc' = "extract"
           ELSE IF regular /\ outcome.result = "empty"
           THEN EmptyResponse(r)
           ELSE IF regular
           THEN /\ req' = [r EXCEPT !.attempt = n + 1,
                                    !.errors = @ \cup {outcome.message},
                                    !.orig_error = IF n = 1 THEN outcome.message ELSE @]
                /\ pc' = "download"
           ELSE IF n = 2 /\ ~req.user_id
           THEN DownloadFailed(r, req.orig_error)
           ELSE IF n = 6
           THEN DownloadFailed(r, all_attempts_failed_message)
           \* with further candidates to try, orig_error is only printed
           ELSE /\ req' = [r EXCEPT !.attempt = n + 1, !.orig_error = {}]
                /\ pc' = "download"

\* Text types decoded directly as UTF-8.
is_text_type(file_type) ==
    file_type \in {"text/plain", "application/json", "application/xml", "application/csv"}

\* Outcomes of the extraction call for the declared type and the content.
\* extract_text_with_ocr_fallback catches every exception of both passes and
\* returns a non-blank text; only the import of the module can fail.
ExtractOutcomes(file_type, content) ==
    IF is_text_type(file_type)
    THEN IF content = "utf8" THEN {"text", "blank_text"} ELSE {"decode_error"}
    ELSE IF file_type = "application/pdf" THEN {"text", "import_error"}
    ELSE {"unsupported"}

\* Chunk counts the splitter can return for an extracted text.
ChunkCounts(outcome) == IF outcome = "blank_text" THEN {0} ELSE 1..MaxChunks

\* Text extraction by declared type, then SentenceSplitter chunking.  Of the
\* acquisition stage only the kind of the downloaded content is kept from
\* here on; its length is last read by the size print before extraction.
\* `propagated`: whether the splitter copied the document metadata to nodes.
process_file_extract(outcome, count, propagated) ==
    /\ pc = "extract"
    /\ UNCHANGED <<pdf, index, supabase_client, pinecone_creds, ledger, vectors, documents, served>>
    /\ LET r == [req EXCEPT !.extracted = TRUE, !.attempt = 0, !.tried = <<>>,
                            !.content_length = 0]
       IN  IF outcome \in {"text", "blank_text"}
           THEN /\ req' = [r EXCEPT !.chunked = TRUE, !.nodes = count,
                                    !.node_tag = IF propagated THEN req.file_id ELSE NoFid]
                /\ pc' = "insert"
           ELSE IF outcome = "unsupported"
           \* HTTPException(400) raised inside the try is caught by the
           \* enclosing `except Exception` and re-raised as 500.
           THEN Finish(r, 500, "unsupported_file_type")
           ELSE IF outcome = "import_error"
           THEN Finish(r, 500, "pdf_processing_unavailable")
           ELSE Finish(r, 500, "content_processing_error")

\* Stamping of the request's file id on every node before the insert.
stamp(node_tag, file_id) == file_id

upsert_error_status_throttle_first(message) ==
    IF message \cap {"rate limit", "too many requests"} # {} THEN 429 ELSE 500

upsert_error_status_bad_request(message) ==
    IF "dimension" \in message THEN 400
    ELSE IF message \cap {"rate limit", "too many requests"} # {} THEN 429
    ELSE 500

\* Classification of an insert_nodes failure by the text of the exception.
upsert_error_status(message) ==
    IF "dimension" \in message THEN 500
    ELSE IF message \cap {"rate limit", "too many requests"} # {} THEN 429
    ELSE 500

upsert_error_kind_rate_first(message) ==
    IF message \cap {"rate limit", "too many requests"} # {} THEN "rate_limit"
    ELSE IF "dimension" \in message THEN "embedding_dimension_mismatch"
    ELSE "indexing_error"

upsert_error_kind(message) ==
    IF "dimension" \in message THEN "embedding_dimension_mismatch"
    ELSE IF message \cap {"rate limit", "too many requests"} # {} THEN "rate_limit"
    ELSE "indexing_error"

\* Outcomes of index.insert_nodes: the index accepts a batch only if every
\* embedding has the index dimension; any call may fail for another reason.
UpsertOutcomes(count, embedding_length) ==
    (IF count = 0 \/ embedding_length = EMBEDDING_DIMENSIONS
     THEN {[result |-> "ok", message |-> {}]} ELSE {})
    \cup [result : {"error"},
          message : IF count > 0 /\ embedding_length # EMBEDDING_DIMENSIONS
                    THEN UpsertErrors ELSE {m \in UpsertErrors : "dimension" \notin m}]

insert_nodes_replacing(vecs, tag, count) == [vecs EXCEPT ![tag] = count]

insert_nodes_with_placeholder(vecs, tag, count) ==
    [vecs EXCEPT ![tag] = @ + (IF count = 0 THEN 1 ELSE count)]

\* Effect of an accepted insert_nodes call on the vectors of the index.
insert_nodes(vecs, tag, count) == [vecs EXCEPT ![tag] = @ + count]

\* Stamp the nodes, embed them and upsert them in one insert_nodes call.
process_file_insert(embedding_length, outcome) ==
    /\ pc = "insert"
    /\ UNCHANGED <<pdf, index, supabase_client, pinecone_creds, ledger, documents, served>>
    /\ LET tag == stamp(req.node_tag, req.file_id)
           r == [req EXCEPT !.node_tag = tag, !.upsert_calls = @ + 1,
                            !.embedding_length = embedding_length,
                            !.upsert_error = outcome.message]
       IN  IF outcome.result = "ok"
           THEN /\ vectors' = insert_nodes(vectors, tag, req.nodes)
                /\ req' = [r EXCEPT !.upserted = TRUE]
                /\ pc' = "ledger"
           ELSE /\ vectors' = vectors
                /\ Finish(r, upsert_error_status(outcome.message),
                             upsert_error_kind(outcome.message))

record_data_per_document(rows, chunk_count) == Append(rows, 1)

\* Row added to llama_index_documents for a processed file.
record_data(rows, chunk_count) == Append(rows, chunk_count)

ledger_insert_always(rows, chunk_count, written) == record_data(rows, chunk_count)

\* The ledger rows of the file id after the insert attempts: a row is added
\* only when one of the two inserts went through.
ledger_insert(rows, chunk_count, written) ==
    IF written THEN record_data(rows, chunk_count) ELSE rows

record_status_strict(written) == IF written THEN 200 ELSE 500

\* Status after the ledger step: the failure of both inserts is only logged.
record_status(written) == 200

\* Ledger insert with the regular client, then with the service-role client;
\* a failure of both is logged and the request still succeeds.
process_file_record(outcome) ==
    /\ pc = "ledger"
    /\ UNCHANGED <<pdf, index, supabase_client, pinecone_creds, vectors, documents, served>>
    /\ LET attempts == IF outcome = "regular_ok" THEN 1
                       ELSE IF outcome = "no_service_client" THEN 1 ELSE 2
           written == outcome \in {"regular_ok", "service_ok"}
           r == [req EXCEPT !.ledger_writes = attempts, !.ledger_written = written,
                            !.chunks_processed = req.nodes]
       IN  /\ ledger' = [ledger EXCEPT
                             ![req.file_id] = ledger_insert(@, req.nodes, written)]
           /\ Finish(r, record_status(written),
                     IF record_status(written) = 200 THEN "processed"
                     ELSE "ledger_error")

\* ----------------------------------------------------- DELETE /delete/{id}
\* The request before this one was an ingest of the same file id whose
\* upsert succeeded and whose ledger insert failed, or a delete that itself
\* followed such an ingest.
after_unrecorded_ingest(file_id) == req.file_id = file_id /\ req.follows_unrecorded

tracked_unless_null(rows) == TRUE

\* The file is tracked iff the lookup returned at least one row.
tracked(rows) == Len(rows) > 0

\* Authentication, service checks and the ledger lookup.
delete_file_lookup(token, file_id, lookup_ok) ==
    /\ pc = "idle" /\ req.op = "none"
    /\ served < MaxRequests
    /\ served' = served + 1
    /\ UNCHANGED <<pdf, index, supabase_client, pinecone_creds, ledger, vectors, documents>>
    /\ LET r0 == [NewRequest("delete") EXCEPT
                     !.file_id = file_id, !.authenticated = token,
                     !.follows_ingest = req.follows_ingest /\ req.file_id = file_id,
                     !.follows_unrecorded = after_unrecorded_ingest(file_id),
                     !.tracked_before =
                         after_unrecorded_ingest(file_id) /\ req.tracked_before]
           r1 == [r0 EXCEPT !.lookups = 1, !.lookup_ok = lookup_ok]
       IN  IF ~token THEN Finish(r0, 401, "authentication_required")
           ELSE IF ~supabase_client THEN Finish(r0, 500, "supabase_not_initialized")
           ELSE IF ~index THEN Finish(r0, 500, "index_not_initialized")
           ELSE IF ~lookup_ok THEN Finish(r1, 500, "ledger_error")
           ELSE IF tracked(ledger[file_id])
           THEN /\ req' = [r1 EXCEPT !.found = TRUE]
                /\ pc' = "delete_ledger"
           ELSE Finish(r1, 200, "not_tracked")

ledger_delete_next_lenient(delete_ok) == "purge"

\* Where the handler goes after the ledger delete call: a raised exception
\* leaves the inner try before the purge and becomes the 500 response.
ledger_delete_next(delete_ok) == IF delete_ok THEN "purge" ELSE "idle"

\* Delete of every ledger row of the file id.
delete_file_ledger(delete_ok) ==
    /\ pc = "delete_ledger"
    /\ UNCHANGED <<pdf, index, supabase_client, pinecone_creds, vectors, documents, served>>
    /\ ledger' = IF delete_ok THEN [ledger EXCEPT ![req.file_id] = <<>>] ELSE ledger
    /\ IF ledger_delete_next(delete_ok) = "purge"
       THEN /\ req' = [req EXCEPT !.ledger_deleted = delete_ok]
            /\ pc' = "purge"
       ELSE Finish(req, 500, "ledger_error")

\* The purge is attempted only with both Pinecone settings and an index.
purge_enabled == pinecone_creds /\ index

\* Vector purge by metadata filter: through the index, then directly
\* through the Pinecone client; a failure of both is logged only.
delete_file_purge(first_ok, second_ok) ==
    /\ pc = "purge"
    /\ UNCHANGED <<pdf, index, supabase_client, pinecone_creds, ledger, documents, served>>
    /\ LET calls == IF ~purge_enabled THEN 0 ELSE IF first_ok THEN 1 ELSE 2
           purged == purge_enabled /\ (first_ok \/ second_ok)
       IN  /\ vectors' = IF purged THEN [vectors EXCEPT ![req.file_id] = 0] ELSE vectors
           /\ Finish([req EXCEPT !.purge_calls = calls, !.purged = purged],
                     200, "deleted")

\* -------------------------------------------------------------- POST /query
query_result_log_uncaught(engine_ok, logged, log_ok, synth_ok) ==
    IF ~index THEN "service_unavailable"
    ELSE IF ~engine_ok THEN "internal_error"
    ELSE IF logged /\ ~log_ok THEN "error"
    ELSE IF synth_ok THEN "answer"
    ELSE "query_error"

\* Result of the handler for the outcomes of its collaborator calls; every
\* failure is returned as a dict with HTTP 200, none is raised.
query_result(engine_ok, logged, log_ok, synth_ok) ==
    IF ~index THEN "service_unavailable"
    ELSE IF ~engine_ok THEN "internal_error"
    ELSE IF synth_ok THEN "answer"
    ELSE "query_error"

\* The whole handler.  The question is logged only with a ledger client and
\* a user id in the request.
query(user_id, engine_ok, log_ok, synth_ok) ==
    /\ pc = "idle" /\ req.op = "none"
    /\ served < MaxRequests
    /\ served' = served + 1
    /\ UNCHANGED <<pdf, index, supabase_client, pinecone_creds, ledger, vectors, documents>>
    /\ LET logged == supabase_client /\ user_id
           kind == query_result(engine_ok, logged, log_ok, synth_ok)
           r0 == [NewRequest("query") EXCEPT !.user_id = user_id]
           r1 == [r0 EXCEPT !.engine_calls = 1,
                            !.failed = IF engine_ok THEN {} ELSE {"engine"}]
           r2 == [r1 EXCEPT !.log_calls = IF logged THEN 1 ELSE 0,
                            !.synth_calls = IF kind \in {"answer", "query_error"}
                                            THEN 1 ELSE 0,
                            !.failed = (IF logged /\ ~log_ok THEN {"log"} ELSE {})
                                       \cup (IF synth_ok THEN {} ELSE {"synth"})]
       IN  IF ~index THEN Finish(r0, 200, kind)
           ELSE IF ~engine_ok THEN Finish(r1, 200, kind)
           ELSE Finish(r2, 200, kind)

\* ------------------------------------------------------------- POST /upload
\* The whole handler.  `tag`: the supabase_file_id of the client's metadata
\* JSON, NoFid when it has none.  failure: the first call that raises.
upload_file(tag, failure, count) ==
    /\ pc = "idle" /\ req.op = "none"
    /\ served < MaxRequests
    /\ served' = served + 1
    /\ UNCHANGED <<pdf, index, supabase_client, pinecone_creds, ledger>>
    /\ LET r == NewRequest("upload")
           inserted == index /\ failure = "none"
       IN  /\ documents' = IF supabase_client /\ failure \in {"none", "decode", "index"}
                           THEN documents + 1 ELSE documents
           /\ vectors' = IF supabase_client /\ inserted
                         THEN [vectors EXCEPT ![tag] = @ + count] ELSE vectors
           /\ IF ~supabase_client THEN Finish(r, 500, "supabase_not_initialized")
              ELSE IF failure = "none"
              THEN Finish([r EXCEPT !.node_tag = tag, !.nodes = count,
                                    !.upsert_calls = IF index THEN 1 ELSE 0,
                                    !.upserted = index], 200, "uploaded")
              ELSE Finish(r, 500, "upload_error")

\* ------------------------------------------------------------ POST /reindex
\* The whole handler.  loaded: documents whose blob could be downloaded and
\* decoded; their metadata is {id, name, user_id, created_at, tags}.
reindex(loaded, count, build_ok) ==
    /\ pc = "idle" /\ req.op = "none"
    /\ served < MaxRequests
    /\ served' = served + 1
    /\ UNCHANGED <<pdf, supabase_client, pinecone_creds, ledger, documents>>
    /\ LET r == NewRequest("reindex")
           built == supabase_client /\ loaded > 0 /\ index /\ build_ok
       IN  /\ vectors' = IF built THEN [vectors EXCEPT ![NoFid] = @ + count] ELSE vectors
           /\ index' = index
           /\ IF ~supabase_client THEN Finish(r, 500, "supabase_not_initialized")
              ELSE IF loaded = 0 THEN Finish(r, 200, "no_documents")
              ELSE IF built
              THEN Finish([r EXCEPT !.node_tag = NoFid, !.nodes = count,
                                    !.upsert_calls = 1, !.upserted = TRUE],
                          200, "reindexed")
              ELSE Finish(r, 500, "reindex_error")

\* ============================================== pdf_processor.py: texts
\* A text is a sequence of one-character strings.
Whitespace == {" ", "\n", "\t"}
Digits == {"0", "1", "2", "3", "4", "5", "6", "7", "8", "9"}
Letters ==
    {"a", "b", "c", "d", "e", "f", "g", "h", "i", "j", "k", "l", "m", "n", "o", "p", "q", "r", "s", "t", "u", "v", "w", "x", "y", "z"}
    \cup {"A", "B", "C", "D", "E", "F", "G", "H", "I", "J", "K", "L", "M", "N", "O", "P", "Q", "R", "S", "T", "U", "V", "W", "X", "Y", "Z"}
\* Characters matched by the regular expression \w.
WordChars == Letters \cup Digits \cup {"_"}

\* str(n) of a natural number.
RECURSIVE str(_)
str(n) ==
    LET digit == <<"0", "1", "2", "3", "4", "5", "6", "7", "8", "9">>[(n % 10) + 1]
    IN  IF n < 10 THEN <<digit>> ELSE str(n \div 10) \o <<digit>>

\* sep.join(texts)
RECURSIVE join(_, _)
join(sep, texts) ==
    IF texts = <<>> THEN <<>>
    ELSE IF Len(texts) = 1 THEN texts[1]
    ELSE texts[1] \o sep \o join(sep, Tail(texts))

RECURSIVE lstrip(_)
lstrip(text) ==
    IF text # <<>> /\ Head(text) \in Whitespace THEN lstrip(Tail(text)) ELSE text

RECURSIVE rstrip(_)
rstrip(text) ==
    IF text # <<>> /\ text[Len(text)] \in Whitespace
    THEN rstrip(SubSeq(text, 1, Len(text) - 1))
    ELSE text

\* text.strip()
strip(text) == rstrip(lstrip(text))

\* len(re.findall(r'\w+', text)): the maximal runs of word characters.
word_count(text) ==
    Cardinality({i \in 1..Len(text) :
                    /\ text[i] \in WordChars
                    /\ (i = 1 \/ text[i - 1] \notin WordChars)})

\* c in text
contains(text, c) == \E i \in 1..Len(text) : text[i] = c

\* "\n\n", the page separator of both passes.
page_separator == <<"\n", "\n">>

\* f"[Empty page {page_num+1}]"
empty_page_placeholder(n) ==
    <<"[", "E", "m", "p", "t", "y", " ", "p", "a", "g", "e", " ">>
    \o str(n) \o <<"]">>

\* f"[No text could be extracted from page {i+1}]"
ocr_page_placeholder(n) ==
    <<"[", "N", "o", " ", "t", "e", "x", "t", " ", "c", "o", "u", "l", "d",
      " ", "b", "e", " ", "e", "x", "t", "r", "a", "c", "t", "e", "d", " ",
      "f", "r", "o", "m", " ", "p", "a", "g", "e", " ">>
    \o str(n) \o <<"]">>

\* str(e) of the exception raised by the structural pass.
pdf_processing_error ==
    <<"P", "D", "F", " ", "p", "r", "o", "c", "e", "s", "s", "i", "n", "g",
      " ", "e", "r", "r", "o", "r", ":", " ", "i", "n", "v", "a", "l", "i",
      "d", " ", "p", "d", "f">>

\* f"[PDF processing failed: {error_message or 'No text could be extracted'}]"
processing_failed_placeholder(error_message) ==
    <<"[", "P", "D", "F", " ", "p", "r", "o", "c", "e", "s", "s", "i", "n",
      "g", " ", "f", "a", "i", "l", "e", "d", ":", " ">>
    \o (IF error_message # <<>> THEN error_message
        ELSE
          <<"N", "o", " ", "t", "e", "x", "t", " ", "c", "o", "u", "l", "d", " ",
            "b", "e", " ", "e", "x", "t", "r", "a", "c", "t", "e", "d">>)
    \o <<"]">>

\* n repetitions of "word ".
RECURSIVE Words(_)
Words(n) == IF n = 0 THEN <<>> ELSE <<"w", "o", "r", "d", " ">> \o Words(n - 1)

\* ========================================== pdf_processor.py: extraction
default_min_length == 50
default_min_words == 10
ocr_min_total_length == 50

\* Fifty characters without a space, as OCR noise.
Garbage == [i \in 1..50 |-> "x"]

\* What page.extract_text() returns for a page: nothing (no text layer),
\* a lone space, eleven words.
PageTexts == {<<>>, <<" ">>, Words(11)}
\* What pytesseract.image_to_string returns for a page image: nothing,
\* noise, eleven words.
OcrTexts == {<<>>, Garbage, Words(11)}

SeqsUpTo(S, n) == UNION {[1..k -> S] : k \in 0..n}

\* Structural pass: every page's text, an empty page replaced by its
\* placeholder, joined by blank lines.
extract_text_from_pdf(pages) ==
    join(page_separator,
         [i \in 1..Len(pages) |->
             IF pages[i] # <<>> THEN pages[i] ELSE empty_page_placeholder(i)])

is_meaningful_text_any_whitespace(text, min_length, min_words) ==
    /\ Len(text) >= min_length
    /\ word_count(text) >= min_words
    /\ \E c \in Whitespace : contains(text, c)

\* At least min_length characters after stripping, at least min_words
\* words, and at least one space character.
is_meaningful_text(text, min_length, min_words) ==
    IF text = <<>> \/ Len(strip(text)) < min_length THEN FALSE
    ELSE IF word_count(text) < min_words THEN FALSE
    ELSE IF ~contains(text, " ") THEN FALSE
    ELSE TRUE

\* OCR pass: every page image's text, an empty one replaced by its
\* placeholder; "" when the total is short or anything raised.
perform_ocr_on_pdf(ocr_pages, fails) ==
    IF fails THEN <<>>
    ELSE LET result ==
                 join(page_separator,
                      [i \in 1..Len(ocr_pages) |->
                          IF ocr_pages[i] # <<>> THEN ocr_pages[i]
                          ELSE ocr_page_placeholder(i)])
         IN  IF result = <<>> \/ Len(result) < ocr_min_total_length THEN <<>>
             ELSE result

\* Inputs of one extraction: the outcome of the PDF reader (it raises, or
\* the text layer of each page) and of the OCR toolchain (it raises, or the
\* recognised text of each page image).
PdfInputs ==
    {[reader_fails |-> TRUE, pages |-> <<>>, ocr_fails |-> TRUE, ocr_pages |-> <<>>]}
    \cup [reader_fails : {TRUE}, pages : {<<>>}, ocr_fails : {FALSE},
          ocr_pages : SeqsUpTo(OcrTexts, MaxPages)]
    \cup [reader_fails : {FALSE}, pages : SeqsUpTo(PageTexts, MaxPages),
          ocr_fails : {TRUE}, ocr_pages : {<<>>}]
    \cup {[reader_fails |-> FALSE, pages |-> p, ocr_fails |-> FALSE, ocr_pages |-> q] :
            <<p, q>> \in {pq \in SeqsUpTo(PageTexts, MaxPages) \X SeqsUpTo(OcrTexts, MaxPages) :
                            Len(pq[1]) = Len(pq[2])}}

\* Locals of extract_text_with_ocr_fallback at its entry.
NewExtraction(input) ==
    [stage |-> "standard", input |-> input,
     standard_text |-> <<>>, error_message |-> <<>>, ocr_text |-> <<>>,
     ocr_invoked |-> FALSE, text |-> <<>>, used_ocr |-> FALSE]

after_standard_always_ocr(meaningful) == "ocr"

\* The structural text is returned at once when it is meaningful.
after_standard(meaningful) == IF meaningful THEN "done" ELSE "ocr"

fallback_result_unchecked(standard_text, ocr_text, error_message) ==
    IF is_meaningful_text(ocr_text, default_min_length, default_min_words)
    THEN [text |-> ocr_text, used_ocr |-> TRUE]
    ELSE [text |-> standard_text \o page_separator \o ocr_text, used_ocr |-> TRUE]

\* The return value once the OCR pass has run.
fallback_result(standard_text, ocr_text, error_message) ==
    IF is_meaningful_text(ocr_text, default_min_length, default_min_words)
    THEN [text |-> ocr_text, used_ocr |-> TRUE]
    ELSE IF /\ ~is_meaningful_text(standard_text, default_min_length, default_min_words)
            /\ ~is_meaningful_text(ocr_text, default_min_length, default_min_words)
    THEN LET combined == standard_text \o page_separator \o ocr_text
         IN  IF strip(combined) # <<>>
             THEN [text |-> combined, used_ocr |-> TRUE]
             ELSE [text |-> processing_failed_placeholder(error_message),
                   used_ocr |-> FALSE]
    ELSE [text |-> IF standard_text # <<>> THEN standard_text ELSE ocr_text,
          used_ocr |-> ocr_text # <<>>]

PdfUnchanged ==
    UNCHANGED <<index, supabase_client, pinecone_creds, ledger, vectors, documents,
                pc, req, served>>

\* First attempt: the structural pass, or the exception it raised.
fallback_standard_pass ==
    /\ pdf.stage = "standard"
    /\ PdfUnchanged
    /\ pdf' = IF pdf.input.reader_fails
              THEN [pdf EXCEPT !.stage = "check_standard",
                               !.error_message = pdf_processing_error]
              ELSE [pdf EXCEPT !.stage = "check_standard",
                               !.standard_text = extract_text_from_pdf(pdf.input.pages)]

\* Meaningfulness check of the structural text.
fallback_standard_check ==
    /\ pdf.stage = "check_standard"
    /\ PdfUnchanged
    /\ LET meaningful ==
               /\ pdf.error_message = <<>>
               /\ is_meaningful_text(pdf.standard_text, default_min_length,
                                     default_min_words)
       IN  pdf' = IF after_standard(meaningful) = "done"
                  THEN [pdf EXCEPT !.stage = "done", !.text = pdf.standard_text,
                                   !.used_ocr = FALSE]
                  ELSE [pdf EXCEPT !.stage = "ocr"]

\* Second attempt: the OCR pass.
fallback_ocr_pass ==
    /\ pdf.stage = "ocr"
    /\ PdfUnchanged
    /\ pdf' = [pdf EXCEPT !.stage = "check_ocr", !.ocr_invoked = TRUE,
                          !.ocr_text = perform_ocr_on_pdf(pdf.input.ocr_pages,
                                                          pdf.input.ocr_fails)]

\* Choice of the returned text after the OCR pass.
fallback_ocr_check ==
    /\ pdf.stage = "check_ocr"
    /\ PdfUnchanged
    /\ LET result == fallback_result(pdf.standard_text, pdf.ocr_text, pdf.error_message)
       IN  pdf' = [pdf EXCEPT !.stage = "done", !.text = result.text,
                              !.used_ocr = result.used_ocr]

\* One call of extract_text_with_ocr_fallback on each input.
PdfInit ==
    /\ pdf \in {NewExtraction(input) : input \in PdfInputs}
    /\ index = FALSE
    /\ supabase_client = FALSE
    /\ pinecone_creds = FALSE
    /\ ledger = [f \in FileIds |-> <<>>]
    /\ vectors = [t \in Tags |-> 0]
    /\ documents = 0
    /\ pc = "idle"
    /\ req = [NewRequest("none") EXCEPT !.status = 200, !.kind = "startup"]
    /\ served = 0

PdfNext ==
    \/ fallback_standard_pass
    \/ fallback_standard_check
    \/ fallback_ocr_pass
    \/ fallback_ocr_check

PdfSpec == PdfInit /\ [][PdfNext]_vars

\* ================================== pdf_processor.py: is_meaningful_text
MaxWords == 11

\* A word of n letters.
Token(n) == [i \in 1..n |-> "a"]
TokenLengths == {3, 4, 5}
\* What may surround a text: nothing, a space, a line break.
Paddings == {<<>>, <<" ">>, <<"\n">>}

\* Argument texts: up to MaxWords equal words, separated by one whitespace
\* character and padded on both sides.
MeaningTexts ==
    {lead \o join(<<sep>>, [i \in 1..n |-> Token(len)]) \o trail :
        <<lead, trail>> \in Paddings \X Paddings,
        <<sep, len>> \in Whitespace \X TokenLengths,
        n \in 0..MaxWords}

\* One call is_meaningful_text(text) with the default thresholds.
is_meaningful_text_call ==
    /\ pdf.stage = "text"
    /\ PdfUnchanged
    /\ pdf' = [pdf EXCEPT !.stage = "checked",
                          !.meaningful = is_meaningful_text(pdf.text, default_min_length,
                                                            default_min_words)]

MeaningInit ==
    /\ pdf \in {[stage |-> "text", text |-> t, meaningful |-> FALSE] : t \in MeaningTexts}
    /\ index = FALSE
    /\ supabase_client = FALSE
    /\ pinecone_creds = FALSE
    /\ ledger = [f \in FileIds |-> <<>>]
    /\ vectors = [t \in Tags |-> 0]
    /\ documents = 0
    /\ pc = "idle"
    /\ req = [NewRequest("none") EXCEPT !.status = 200, !.kind = "startup"]
    /\ served = 0

MeaningNext == is_meaningful_text_call

MeaningSpec == MeaningInit /\ [][MeaningNext]_vars

\* ============================ concurrent ingest and delete of one file id
\* The request-serving layer runs one POST /process and one DELETE /delete
\* for the same tracked file id at once; the steps of the two handlers
\* (each a call to the index or the ledger) interleave freely.  Here pc and
\* req hold one entry per handler.
Handlers == {"process_file", "delete_file"}
RaceFile == "f1"
other(h) == IF h = "process_file" THEN "delete_file" ELSE "process_file"
start(h) == IF h = "process_file" THEN "insert" ELSE "lookup"

\* The handler takes a step while the other one is between its first and
\* its last step.
overlaps(h) == pc[other(h)] \notin {start(other(h)), "done"}

step(h, next, r) ==
    /\ pc' = [pc EXCEPT ![h] = next]
    /\ req' = [req EXCEPT ![h] = [r EXCEPT !.overlapped = @ \/ overlaps(h)]]

RaceUnchanged == UNCHANGED <<pdf, index, supabase_client, pinecone_creds, documents, served>>

\* process_file: the insert_nodes call.
concurrent_insert(ok) ==
    /\ pc["process_file"] = "insert"
    /\ RaceUnchanged /\ UNCHANGED ledger
    /\ LET r == req["process_file"]
       IN  IF ok
           THEN /\ vectors' = insert_nodes(vectors, r.file_id, r.nodes)
                /\ step("process_file", "ledger", [r EXCEPT !.upserted = TRUE])
           ELSE /\ vectors' = vectors
                /\ step("process_file", "done", [r EXCEPT !.status = 500])

\* process_file: the ledger insert.
concurrent_record(written) ==
    /\ pc["process_file"] = "ledger"
    /\ RaceUnchanged /\ UNCHANGED vectors
    /\ LET r == req["process_file"]
       IN  /\ ledger' = [ledger EXCEPT ![r.file_id] = ledger_insert(@, r.nodes, written)]
           /\ step("process_file", "done",
                   [r EXCEPT !.ledger_written = written,
                             !.status = record_status(written)])

\* delete_file: the ledger lookup.
concurrent_lookup(lookup_ok) ==
    /\ pc["delete_file"] = "lookup"
    /\ RaceUnchanged /\ UNCHANGED <<ledger, vectors>>
    /\ LET r == req["delete_file"]
       IN  IF ~lookup_ok THEN step("delete_file", "done", [r EXCEPT !.status = 500])
           ELSE IF tracked(ledger[r.file_id])
           THEN step("delete_file", "delete_ledger", [r EXCEPT !.found = TRUE])
           ELSE step("delete_file", "done", [r EXCEPT !.status = 200])

\* delete_file: the ledger delete.
concurrent_delete_ledger(delete_ok) ==
    /\ pc["delete_file"] = "delete_ledger"
    /\ RaceUnchanged /\ UNCHANGED vectors
    /\ LET r == req["delete_file"]
       IN  /\ ledger' = IF delete_ok THEN [ledger EXCEPT ![r.file_id] = <<>>] ELSE ledger
           /\ IF ledger_delete_next(delete_ok) = "purge"
              THEN step("delete_file", "purge", [r EXCEPT !.ledger_deleted = delete_ok])
              ELSE step("delete_file", "done", [r EXCEPT !.status = 500])

\* delete_file: the vector purge by metadata filter.
concurrent_purge(first_ok, second_ok) ==
    /\ pc["delete_file"] = "purge"
    /\ RaceUnchanged /\ UNCHANGED ledger
    /\ LET r == req["delete_file"]
           purged == purge_enabled /\ (first_ok \/ second_ok)
       IN  /\ vectors' = IF purged THEN [vectors EXCEPT ![r.file_id] = 0] ELSE vectors
           /\ step("delete_file", "done", [r EXCEPT !.purged = purged, !.status = 200])

\* Both requests have passed their checks; the re-ingest has its chunks.
RaceInit ==
    /\ index = TRUE
    /\ supabase_client = TRUE
    /\ pinecone_creds = TRUE
    /\ ledger = [f \in FileIds |-> IF f \in PersistedFiles THEN <<1>> ELSE <<>>]
    /\ vectors = [t \in Tags |-> IF t \in PersistedFiles THEN 1 ELSE 0]
    /\ documents = 0
    /\ served = 0
    /\ pdf = NoPdf
    /\ pc = [h \in Handlers |-> start(h)]
    /\ \E nodes \in 0..MaxChunks :
          req = [h \in Handlers |->
                    IF h = "process_file"
                    THEN [file_id |-> RaceFile, nodes |-> nodes, upserted |-> FALSE,
                          ledger_written |-> FALSE, status |-> 0, overlapped |-> FALSE]
                    ELSE [file_id |-> RaceFile, found |-> FALSE, ledger_deleted |-> FALSE,
                          purged |-> FALSE, status |-> 0, overlapped |-> FALSE]]

RaceNext ==
    \/ \E ok \in BOOLEAN : concurrent_insert(ok)
    \/ \E written \in BOOLEAN : concurrent_record(written)
    \/ \E lookup_ok \in BOOLEAN : concurrent_lookup(lookup_ok)
    \/ \E delete_ok \in BOOLEAN : concurrent_delete_ledger(delete_ok)
    \/ \E first_ok, second_ok \in BOOLEAN : concurrent_purge(first_ok, second_ok)

RaceSpec == RaceInit /\ [][RaceNext]_vars

\* ================================================================== claims
Finished == req.status # 0
Untouched == ledger = req.pre_ledger /\ vectors = req.pre_vectors
NoIngestWork ==
    /\ ~req.downloaded /\ ~req.extracted
    /\ req.upsert_calls = 0 /\ req.ledger_writes = 0
OversizedRequest == req.op = "process" /\ req.parsed /\ req.size > max_size_bytes

\* C1 (as stated): every ingest request whose declared size exceeds 30 MiB
\* fails with the size-validation error (413) and does no download,
\* extraction, upsert or ledger write.
C1_Original == OversizedRequest => (req.status = 413 /\ NoIngestWork /\ Untouched)

\* C1 (amended): an oversized request that carries file_id and storage path
\* fails with 413, one that lacks either fails with 400 (the required-field
\* check comes first); in both cases no download, extraction, upsert or
\* ledger write is performed and the stores are untouched.
C1_OversizedRejected ==
    OversizedRequest =>
        /\ req.status = IF req.file_id # None /\ req.has_path THEN 413 ELSE 400
        /\ NoIngestWork
        /\ Untouched

C1_Witness == OversizedRequest /\ req.status = 413 /\ pc = "idle"

UntrackedDelete ==
    req.op = "delete" /\ Finished /\ Len(req.pre_ledger[req.file_id]) = 0

\* C2 (as stated): delete of a file id without ledger entry returns the
\* not-tracked result without raising, calls no Vector Index operation and
\* leaves ledger and index unchanged.
C2_Original ==
    UntrackedDelete =>
        /\ req.status = 200 /\ req.kind = "not_tracked"
        /\ req.purge_calls = 0
        /\ Untouched

\* C2 (amended): delete of a file id without ledger entry never calls the
\* Vector Index and leaves ledger and index unchanged; it returns the
\* not-tracked result exactly when the caller is authenticated, both
\* services are initialised and the ledger lookup succeeds, and raises
\* 401 / 500 otherwise.
C2_UntrackedDelete ==
    UntrackedDelete =>
        /\ req.purge_calls = 0
        /\ Untouched
        /\ (req.authenticated /\ supabase_client /\ index /\ req.lookup_ok)
              => (req.status = 200 /\ req.kind = "not_tracked")
        /\ ~(req.authenticated /\ supabase_client /\ index /\ req.lookup_ok)
              => req.status \in {401, 500}

C2_Witness ==
    UntrackedDelete /\ req.kind = "not_tracked" /\ VectorCount > 0

\* C3: when a successful ingest of a file id is followed by a delete of the
\* same id (here: one that found the entry and returned 200), the ledger has
\* no entry for the id and a vector delete filtered on the id was issued.
C3_IngestThenDelete ==
    (req.op = "delete" /\ req.follows_ingest /\ req.found /\ req.status = 200) =>
        /\ ledger[req.file_id] = <<>>
        /\ req.purge_calls >= 1

MismatchedEmbedding ==
    /\ req.op = "process" /\ req.nodes > 0
    /\ req.embedding_length \notin {0, EMBEDDING_DIMENSIONS}

\* C4 (as stated): an embedding of the wrong length makes ingest fail with
\* the dimension error before any upsert call is attempted.
C4_Original ==
    MismatchedEmbedding =>
        (req.kind = "embedding_dimension_mismatch" /\ req.upsert_calls = 0)

\* C4 (amended): the mismatch is detected by the Vector Index, not before
\* the call: insert_nodes is called exactly once, it is rejected, no vector
\* and no ledger row is written, ingest fails, and the failure is the
\* dimension error exactly when the rejection text mentions "dimension".
C4_MismatchRejected ==
    MismatchedEmbedding =>
        /\ req.upsert_calls = 1 /\ ~req.upserted
        /\ req.status \in {429, 500}
        /\ req.ledger_writes = 0
        /\ Untouched
        /\ (req.kind = "embedding_dimension_mismatch"
              <=> "dimension" \in req.upsert_error)

C4_Witness ==
    /\ MismatchedEmbedding /\ req.kind = "embedding_dimension_mismatch"
    /\ "rate limit" \in req.upsert_error

ZeroChunks == req.op = "process" /\ req.chunked /\ req.nodes = 0 /\ Finished

C6_QueryNeverRaises ==
    (req.op = "query" /\ Finished) =>
        /\ req.status = 200
        /\ ~index => /\ req.kind = "service_unavailable"
                     /\ req.engine_calls = 0 /\ req.log_calls = 0
                     /\ req.synth_calls = 0
        /\ (index /\ "engine" \in req.failed) => req.kind = "internal_error"
        /\ (index /\ "synth" \in req.failed) => req.kind = "query_error"
        /\ (index /\ req.failed \subseteq {"log"}) => req.kind = "answer"
        /\ Untouched

C6_Witness ==
    req.op = "query" /\ req.failed = {"log"} /\ req.kind = "answer"

\* C7: every vector stored in the index carries a supabase_file_id, and
\* every chunk ingest upserts is stamped with the request's file id.
C7_EveryVectorHasFileId ==
    /\ vectors[NoFid] = 0
    /\ (req.op = "process" /\ req.upsert_calls > 0) => req.node_tag = req.file_id

\* C8: the ledger holds at most one entry per file id.
C8_OneLedgerEntryPerFile == \A f \in FileIds : Len(ledger[f]) <= 1

UnsupportedTypeRequest ==
    /\ req.op = "process" /\ req.parsed
    /\ req.file_id # None /\ req.has_path /\ req.size <= max_size_bytes
    /\ ~is_text_type(req.type) /\ req.type # "application/pdf"

\* C9: an ingest of an unsupported media type (here: of a file that storage
\* can deliver) is rejected with a client error (4xx) before any
\* processing: no download, extraction, upsert or ledger write.
C9_UnsupportedTypeRejected ==
    (UnsupportedTypeRequest /\ Finished /\ req.content # None) =>
        /\ req.status \in 400..499
        /\ NoIngestWork

AllDownloadsNotFound ==
    /\ req.op = "process" /\ Finished /\ req.downloaded /\ req.content = None
    /\ req.kind # "empty_response"
    /\ \A m \in req.errors : "not found" \in m

\* C10: when every candidate path fails under every credential (here: each
\* failure reported by the regular client is a not-found), acquisition
\* stops after at most six download attempts and ingest fails with 404.
C10_ExhaustedIsNotFound ==
    AllDownloadsNotFound => (Len(req.tried) <= 6 /\ req.status = 404)

AllDownloadsDenied ==
    /\ req.op = "process" /\ Finished /\ req.downloaded /\ req.content = None
    /\ req.kind # "empty_response"
    /\ \A m \in req.errors : "denied" \in m /\ "not found" \notin m

\* C11: when every download attempt fails because storage access is denied
\* under all credential levels, ingest fails with the permission error
\* (403), not with the not-found error nor with a generic server error.
C11_DeniedIsPermissionError ==
    AllDownloadsDenied => (req.status = 403 /\ req.kind = "permission_denied")

LedgerWriteFailed ==
    /\ req.op = "process" /\ Finished /\ req.upserted
    /\ req.ledger_writes > 0 /\ ~req.ledger_written

\* C12: when the upsert of an ingest succeeded and the ledger write then
\* fails (regular client and service-role client), ingest still returns
\* success with the number of chunks indexed, the upserted vectors stay in
\* the index and the ledger is as it was.
C12_LedgerFailureStillSucceeds ==
    LedgerWriteFailed =>
        /\ req.status = 200
        /\ req.chunks_processed = req.nodes
        /\ vectors[req.file_id] = req.pre_vectors[req.file_id] + req.nodes
        /\ \A t \in Tags \ {req.file_id} : vectors[t] = req.pre_vectors[t]
        /\ ledger = req.pre_ledger

C12_Witness ==
    LedgerWriteFailed /\ req.ledger_writes = 2 /\ req.nodes > 0 /\ req.status = 200

\* C13: in delete of a tracked file no vector purge is attempted unless the
\* ledger delete has succeeded, and when every purge attempt fails delete
\* still returns its success result with the ledger entry gone.
C13_LedgerBeforePurge ==
    req.op = "delete" =>
        /\ (pc = "purge" \/ req.purge_calls > 0) => req.ledger_deleted
        /\ (Finished /\ req.found /\ req.purge_calls = 2 /\ ~req.purged) =>
              /\ req.status = 200 /\ req.kind = "deleted"
              /\ ledger[req.file_id] = <<>>

C13_Witness ==
    /\ req.op = "delete" /\ Finished /\ req.found /\ req.ledger_deleted
    /\ req.purge_calls = 2 /\ ~req.purged
    /\ req.status = 200 /\ ledger[req.file_id] = <<>>
    /\ vectors[req.file_id] > 0

TrackedDeleteWithoutIndex ==
    /\ req.op = "delete" /\ Finished /\ req.authenticated /\ supabase_client
    /\ ~index /\ Len(req.pre_ledger[req.file_id]) > 0

\* C14: deletion of a tracked file is not blocked by the vector index being
\* unavailable: when the index is not initialized, delete still removes the
\* ledger entry of the file id and returns success (unless the ledger
\* itself fails).
C14_DeleteWithoutIndex ==
    TrackedDeleteWithoutIndex =>
        \/ req.kind = "ledger_error"
        \/ req.status = 200 /\ ledger[req.file_id] = <<>>

\* C15: every file that ingest downloads and passes on to text extraction
\* has an actual byte length of at most 30 MiB: a request whose downloaded
\* content is larger never takes the extraction step.
C15_DownloadedSizeBounded ==
    [][(pc = "extract" /\ req.content_length > max_size_bytes) => ~req'.extracted]_vars

RejectedIngest ==
    /\ req.op = "process" /\ Finished
    /\ req.status \in {400, 413, 404, 403}

\* C16: an ingest that ends in a validation error (invalid body, missing
\* fields, oversize), a not-found error or a permission error has called
\* neither the upsert nor the ledger write: ledger and index are exactly
\* as they were before the request.
C16_RejectedIngestTouchesNothing ==
    RejectedIngest =>
        (req.upsert_calls = 0 /\ req.ledger_writes = 0 /\ Untouched)

C16_Witness ==
    /\ RejectedIngest /\ req.status = 403 /\ Len(req.tried) = 2
    /\ VectorCount > 0 /\ Untouched

NoTextLayerPdf ==
    /\ pdf.stage = "done" /\ ~pdf.input.reader_fails
    /\ Len(pdf.input.pages) > 0
    /\ \A i \in 1..Len(pdf.input.pages) : pdf.input.pages[i] = <<>>

\* C17: for a PDF of any page count in which no page has a text layer, the
\* structural result (the [Empty page N] placeholders) fails the
\* meaningfulness check and OCR is invoked.
C17_NoTextLayerInvokesOcr ==
    NoTextLayerPdf =>
        /\ ~is_meaningful_text(pdf.standard_text, default_min_length, default_min_words)
        /\ pdf.ocr_invoked

MeaningfulStructuralText ==
    /\ pdf.stage = "done" /\ ~pdf.input.reader_fails
    /\ is_meaningful_text(pdf.standard_text, default_min_length, default_min_words)

\* C18: whenever the structural pass returns text that passes the
\* meaningfulness check, OCR is never invoked and the result is exactly the
\* structural text, reported as obtained without OCR.
C18_MeaningfulSkipsOcr ==
    MeaningfulStructuralText =>
        /\ ~pdf.ocr_invoked
        /\ pdf.text = pdf.standard_text
        /\ ~pdf.used_ocr

C18_Witness ==
    /\ MeaningfulStructuralText
    /\ pdf.input.pages = <<Words(11), <<>>>>
    /\ ~pdf.input.ocr_fails
    /\ pdf.text = Words(11) \o page_separator \o empty_page_placeholder(2)
    /\ ~pdf.ocr_invoked /\ ~pdf.used_ocr

\* C19: PDF extraction with OCR fallback always returns, and for every
\* combination of structural-pass outcome (meaningful, insufficient, empty,
\* exception) and OCR outcome (meaningful, insufficient, empty, failure)
\* the returned text contains at least one non-whitespace character.
C19_ResultNeverBlank ==
    /\ pdf.stage \in {"standard", "check_standard", "ocr", "check_ocr", "done"}
    /\ pdf.stage # "done" => ENABLED PdfNext
    /\ pdf.stage = "done" => strip(pdf.text) # <<>>

C19_Witness ==
    /\ pdf.stage = "done"
    /\ pdf.input.pages = <<<<" ">>>> /\ pdf.input.ocr_fails
    /\ pdf.ocr_invoked /\ pdf.ocr_text = <<>>
    /\ pdf.text = processing_failed_placeholder(<<>>)

\* The stored bytes of a text-type file are valid UTF-8: the download
\* returned decodable content, or b"" (the zero-length file).
Utf8TextFile ==
    /\ req.op = "process" /\ Finished /\ is_text_type(req.type)
    /\ (req.content = "utf8" \/ req.kind = "empty_response")

\* C20: for every file of a plain-text-like type whose stored bytes are
\* valid UTF-8, the zero-length file included, the decoding of the stored
\* bytes is handed to the chunker.
C20_TextReachesChunker == Utf8TextFile => (req.extracted /\ req.chunked)

NotAPdf ==
    /\ req.op = "process" /\ req.type = "application/pdf"
    /\ req.content \in {"utf8", "binary"}

\* C21: for a file declared application/pdf whose content does not begin
\* with the %PDF signature, ingest fails with a client error (400) and
\* indexes nothing (unless the PDF processor itself cannot be imported).
C21_NotAPdfRejected ==
    NotAPdf =>
        /\ ~req.chunked /\ req.upsert_calls = 0
        /\ Finished => (req.status = 400 \/ req.kind = "pdf_processing_unavailable")

AcceptedByTest ==
    /\ req.op = "process" /\ Finished /\ req.authenticated /\ req.parsed
    /\ supabase_client /\ index
    /\ req.file_id # None /\ req.user_id /\ ~req.has_path
    /\ ~oversized(req.size)

\* C22: an ingest request whose body carries file_id and user_id but no
\* storage path is accepted: it is not refused for missing information and
\* goes on to download the file.
C22_PathlessRequestAccepted ==
    AcceptedByTest => (req.kind # "missing_file_information" /\ req.downloaded)

NoOwnerExhausted ==
    /\ req.op = "process" /\ Finished /\ req.downloaded /\ ~req.user_id
    /\ req.content = None /\ req.kind # "empty_response"

\* C24: acquisition tries the supplied path, then owner_id/file_id, then
\* the bare file_id, each with the regular credential before the
\* service-role one, and reaches the bare file_id candidate whenever the
\* earlier candidates fail, also when the request supplies no owner id.
C24_AcquisitionOrder ==
    /\ (req.op = "process" /\ req.downloaded /\ ~req.extracted) =>
          /\ Len(req.tried) <= Len(DownloadPlan)
          /\ \A i \in 1..Len(req.tried) : req.tried[i] = DownloadPlan[i]
    /\ NoOwnerExhausted => \E i \in 1..Len(req.tried) : req.tried[i][1] = "file_id"

UpsertFailed ==
    /\ req.op = "process" /\ Finished /\ req.upsert_calls > 0 /\ ~req.upserted

ReportsThrottling == req.upsert_error \cap {"rate limit", "too many requests"} # {}

\* C25: when the batched upsert of an ingest fails, the upsert has been
\* called exactly once and exactly one error kind is surfaced, by
\* precedence: dimension mismatch if the failure reports a dimension
\* problem, otherwise the rate-limit error (429) if it reports throttling,
\* otherwise a generic indexing error (500).
C25_UpsertErrorPrecedence ==
    UpsertFailed =>
        /\ req.upsert_calls = 1
        /\ "dimension" \in req.upsert_error =>
              (req.kind = "embedding_dimension_mismatch" /\ req.status = 500)
        /\ ("dimension" \notin req.upsert_error /\ ReportsThrottling) =>
              (req.kind = "rate_limit" /\ req.status = 429)
        /\ ("dimension" \notin req.upsert_error /\ ~ReportsThrottling) =>
              (req.kind = "indexing_error" /\ req.status = 500)

C25_Witness ==
    /\ UpsertFailed /\ req.upsert_calls = 1
    /\ req.upsert_error = {"dimension", "rate limit"}
    /\ req.kind = "embedding_dimension_mismatch" /\ req.status = 500
    /\ Untouched

\* C28: ingest never deletes vectors: at every stage of an ingest each tag
\* keeps at least the vectors it had, and a successful ingest of k chunks
\* leaves exactly k more vectors stamped with its file id, so two
\* successful ingests of one id with k1 and k2 chunks leave k1 + k2.
C28_IngestOnlyAddsVectors ==
    req.op = "process" =>
        /\ \A t \in Tags : vectors[t] >= req.pre_vectors[t]
        /\ (Finished /\ req.status = 200) =>
              /\ vectors[req.file_id] = req.pre_vectors[req.file_id] + req.nodes
              /\ \A t \in Tags \ {req.file_id} : vectors[t] = req.pre_vectors[t]

\* The second of two successful ingests of f2, of 1 and 2 chunks.
C28_Witness ==
    /\ req.op = "process" /\ Finished /\ req.status = 200 /\ req.file_id = "f2"
    /\ req.pre_ledger["f2"] = <<1>> /\ req.pre_vectors["f2"] = 1
    /\ req.nodes = 2 /\ vectors["f2"] = 3

IngestRecorded == req.op = "process" /\ req.ledger_written

\* C29: a ledger entry is written by ingest only after the upsert of the
\* same request has succeeded; an ingest whose upsert fails writes none;
\* the entry's chunk_count is the number of chunks passed to the upsert
\* and the count returned to the caller.
C29_LedgerOnlyAfterUpsert ==
    req.op = "process" =>
        /\ ~req.upserted => (req.ledger_writes = 0 /\ ledger = req.pre_ledger)
        /\ ~req.ledger_written => ledger = req.pre_ledger
        /\ req.ledger_written =>
              /\ req.upserted /\ req.upsert_calls = 1
              /\ ledger = [req.pre_ledger EXCEPT
                              ![req.file_id] = Append(@, req.nodes)]
              /\ req.chunks_processed = req.nodes

C29_Witness ==
    /\ IngestRecorded /\ Finished /\ req.status = 200
    /\ req.nodes = 2 /\ req.chunks_processed = 2
    /\ ledger[req.file_id] = Append(req.pre_ledger[req.file_id], 2)
    /\ req.ledger_writes = 2

DeleteAfterUnrecorded == req.op = "delete" /\ req.follows_unrecorded

OrphanedVectorsKept ==
    /\ ~req.found /\ req.purge_calls = 0
    /\ Untouched
    /\ (Finished /\ req.status = 200) => req.kind = "not_tracked"

NeitherMeaningful ==
    /\ pdf.stage = "done" /\ pdf.ocr_invoked
    /\ ~is_meaningful_text(pdf.standard_text, default_min_length, default_min_words)
    /\ ~is_meaningful_text(pdf.ocr_text, default_min_length, default_min_words)

\* C27: when neither the structural text nor the OCR text is meaningful and
\* one of them is non-empty, the returned text is exactly one of the two,
\* never a mixture; when both are empty it is the placeholder that embeds
\* the failure reason.
C27_BetterOfTwoOrPlaceholder ==
    NeitherMeaningful =>
        IF pdf.standard_text # <<>> \/ pdf.ocr_text # <<>>
        THEN pdf.text \in {pdf.standard_text, pdf.ocr_text}
        ELSE pdf.text = processing_failed_placeholder(pdf.error_message)

Checked == pdf.stage = "checked"

\* C26 (as stated): with the default thresholds a text is accepted exactly
\* when it has at least 50 characters, at least 10 words and at least one
\* whitespace character, newline, tab and padding included.
C26_Original ==
    Checked =>
        (pdf.meaningful <=> /\ Len(pdf.text) >= 50
                            /\ word_count(pdf.text) >= 10
                            /\ \E i \in 1..Len(pdf.text) : pdf.text[i] \in Whitespace)

\* C26 (amended): a text is accepted exactly when it has at least 50
\* characters once leading and trailing whitespace is removed, at least 10
\* words and at least one space character.
C26_MeaningfulIffThresholds ==
    Checked =>
        (pdf.meaningful <=>
            /\ \E i, j \in 1..Len(pdf.text) :
                  /\ j - i + 1 >= 50
                  /\ pdf.text[i] \notin Whitespace /\ pdf.text[j] \notin Whitespace
            /\ word_count(pdf.text) >= 10
            /\ \E i \in 1..Len(pdf.text) : pdf.text[i] = " ")

\* Ten words of four letters, separated by spaces and padded: 49 characters
\* between the first and the last letter, 51 in all; rejected.
C26_Witness ==
    /\ Checked /\ ~pdf.meaningful
    /\ Len(pdf.text) = 51 /\ Len(strip(pdf.text)) = 49
    /\ word_count(pdf.text) = 10
    /\ pdf.text[1] = " " /\ pdf.text[6] = " "

BothDone == pc["process_file"] = "done" /\ pc["delete_file"] = "done"
Serial == ~req["process_file"].overlapped /\ ~req["delete_file"].overlapped
LedgerWithoutVectors == tracked(ledger[RaceFile]) /\ vectors[RaceFile] = 0

Next ==
    \/ respond
    \/ \E request \in ProcessRequests : process_file_validate(request)
    \/ \E outcome \in DownloadOutcomes : process_file_download(outcome)
    \/ \E outcome \in ExtractOutcomes(req.type, req.content) :
       \E count \in ChunkCounts(outcome), propagated \in BOOLEAN :
          process_file_extract(outcome, count, propagated)
    \/ \E embedding_length \in EmbeddingLengths :
       \E outcome \in UpsertOutcomes(req.nodes, embedding_length) :
          process_file_insert(embedding_length, outcome)
    \/ \E outcome \in {"regular_ok", "service_ok", "service_failed", "no_service_client"} :
          process_file_record(outcome)
    \/ \E token, lookup_ok \in BOOLEAN, file_id \in FileIds :
          delete_file_lookup(token, file_id, lookup_ok)
    \/ \E delete_ok \in BOOLEAN : delete_file_ledger(delete_ok)
    \/ \E first_ok, second_ok \in BOOLEAN : delete_file_purge(first_ok, second_ok)
    \/ \E user_id, engine_ok, log_ok, synth_ok \in BOOLEAN :
          query(user_id, engine_ok, log_ok, synth_ok)
    \/ \E tag \in Tags, count \in 0..MaxChunks :
       \E failure \in {"none", "storage", "documents", "decode", "index"} :
          upload_file(tag, failure, count)
    \/ \E loaded \in 0..documents, count \in 1..MaxChunks, build_ok \in BOOLEAN :
          reindex(loaded, count, build_ok)

Spec == Init /\ [][Next]_vars
====
